---------------------------- MODULE Spec2Model ----------------------------
(***************************************************************************)
(* Model of qrcodepix: the BR Code (PIX) payload encoder of                *)
(* src/qrcodepix/core/payload.py and the CRC engine of                     *)
(* src/qrcodepix/core/crc16.py.                                            *)
(*                                                                         *)
(* A Python str is a sequence of characters, a character is a one-element  *)
(* token ("A", "+", "U+00E9" for a non-ASCII code point); a Python bytes   *)
(* object is a sequence of integers 0..255.  ord, chr and the UTF-8 codec  *)
(* convert between the two.                                                *)
(***************************************************************************)
EXTENDS Integers, Sequences, FiniteSets, TLC

VARIABLES pc, args, parts, mai, sub_62, ret

vars == <<pc, args, parts, mai, sub_62, ret>>

(***************************************************************************)
(* Characters.                                                             *)
(***************************************************************************)

\* The printable ASCII characters, code points 32..126 in order (U+0022 is the
\* quotation mark, U+005C the reverse solidus, U+0060 the grave accent).
Ascii ==
  << " ", "!", "U+0022", "#", "$", "%", "&", "'", "(", ")", "*", "+", ",", "-", ".", "/",
     "0", "1", "2", "3", "4", "5", "6", "7", "8", "9", ":", ";", "<", "=", ">", "?",
     "@", "A", "B", "C", "D", "E", "F", "G", "H", "I", "J", "K", "L", "M", "N", "O",
     "P", "Q", "R", "S", "T", "U", "V", "W", "X", "Y", "Z", "[", "U+005C", "]", "^", "_",
     "U+0060", "a", "b", "c", "d", "e", "f", "g", "h", "i", "j", "k", "l", "m", "n", "o",
     "p", "q", "r", "s", "t", "u", "v", "w", "x", "y", "z", "{", "|", "}", "~" >>

\* The other characters of the model, each with its code point:
\*   TAB     U+0009 CHARACTER TABULATION       (whitespace)
\*   U+00A0  NO-BREAK SPACE                    (whitespace, 2 bytes)
\*   U+00BA  MASCULINE ORDINAL INDICATOR       (letter, no decomposition)
\*   U+00C3  LATIN CAPITAL LETTER A WITH TILDE (NFD: A U+0303)
\*   U+00C9  LATIN CAPITAL LETTER E WITH ACUTE (NFD: E U+0301)
\*   U+00CA  LATIN CAPITAL LETTER E WITH CIRCUMFLEX (NFD: E U+0302)
\*   U+00E3  LATIN SMALL LETTER A WITH TILDE   (NFD: a U+0303)
\*   U+00E9  LATIN SMALL LETTER E WITH ACUTE   (NFD: e U+0301)
\*   U+00EA  LATIN SMALL LETTER E WITH CIRCUMFLEX (NFD: e U+0302)
\*   U+0301  COMBINING ACUTE ACCENT            (category Mn)
\*   U+0302  COMBINING CIRCUMFLEX ACCENT       (category Mn)
\*   U+0303  COMBINING TILDE                   (category Mn)
\*   U+20AC  EURO SIGN                         (3 bytes)
\*   U+212A  KELVIN SIGN                       (NFD: K; lower(): k)
\*   U+1F600 GRINNING FACE                     (4 bytes)
NonAscii ==
  << <<"TAB", 9>>, <<"U+00A0", 160>>, <<"U+00BA", 186>>, <<"U+00C3", 195>>,
     <<"U+00C9", 201>>, <<"U+00CA", 202>>, <<"U+00E3", 227>>, <<"U+00E9", 233>>,
     <<"U+00EA", 234>>, <<"U+0301", 769>>, <<"U+0302", 770>>, <<"U+0303", 771>>,
     <<"U+20AC", 8364>>, <<"U+212A", 8490>>,
     <<"U+1F600", 128512>> >>

Chars == {Ascii[i] : i \in 1..Len(Ascii)} \cup {NonAscii[i][1] : i \in 1..Len(NonAscii)}

\* ord(c): the code point of a character.
ord ==
  [c \in Chars |->
     IF \E i \in 1..Len(Ascii) : Ascii[i] = c
       THEN 31 + (CHOOSE i \in 1..Len(Ascii) : Ascii[i] = c)
       ELSE NonAscii[CHOOSE i \in 1..Len(NonAscii) : NonAscii[i][1] = c][2]]

CodePoints == {ord[c] : c \in Chars}

\* chr(n): the character of a code point.
chr == [n \in CodePoints |-> CHOOSE c \in Chars : ord[c] = n]

(***************************************************************************)
(* The UTF-8 codec: str.encode("utf-8") and bytes.decode("utf-8").         *)
(***************************************************************************)

\* The bytes of one code point.
Utf8Char(n) ==
  IF n < 128 THEN <<n>>
  ELSE IF n < 2048 THEN <<192 + (n \div 64), 128 + (n % 64)>>
  ELSE IF n < 65536
    THEN <<224 + (n \div 4096), 128 + ((n \div 64) % 64), 128 + (n % 64)>>
  ELSE <<240 + (n \div 262144), 128 + ((n \div 4096) % 64),
         128 + ((n \div 64) % 64), 128 + (n % 64)>>

\* value.encode("utf-8"): the bytes of the characters of s, in order.  The
\* concatenation is split in halves, which keeps the evaluation shallow.
encode(s) ==
  LET cat[lo \in 1..Len(s) + 1, hi \in 0..Len(s)] ==
        IF lo > hi THEN <<>>
        ELSE IF lo = hi THEN Utf8Char(ord[s[lo]])
        ELSE cat[lo, (lo + hi) \div 2] \o cat[(lo + hi) \div 2 + 1, hi]
  IN cat[1, Len(s)]

\* The code point that starts at the lead byte b[i].
Utf8CodePoint(b, i) ==
  IF b[i] < 128 THEN b[i]
  ELSE IF b[i] < 224 THEN (b[i] - 192) * 64 + (b[i + 1] - 128)
  ELSE IF b[i] < 240
    THEN (b[i] - 224) * 4096 + (b[i + 1] - 128) * 64 + (b[i + 2] - 128)
  ELSE (b[i] - 240) * 262144 + (b[i + 1] - 128) * 4096
         + (b[i + 2] - 128) * 64 + (b[i + 3] - 128)

\* b.decode("utf-8"), for a well-formed byte sequence: one character for each
\* lead byte (a byte that is not a continuation byte 10xxxxxx).
decode(b) ==
  LET IsLead(i) == b[i] < 128 \/ b[i] >= 192
      leads == SelectSeq([i \in 1..Len(b) |-> i], IsLead)
  IN [k \in 1..Len(leads) |-> chr[Utf8CodePoint(b, leads[k])]]

(***************************************************************************)
(* Integer bit operations of Python (on non-negative integers).            *)
(***************************************************************************)

RECURSIVE XorBits(_, _)
\* a ^ b, bit by bit
XorBits(a, b) ==
  IF a = 0 THEN b
  ELSE IF b = 0 THEN a
  ELSE ((a + b) % 2) + 2 * XorBits(a \div 2, b \div 2)

RECURSIVE AndBits(_, _)
\* a & b, bit by bit
AndBits(a, b) ==
  IF a = 0 \/ b = 0 THEN 0
  ELSE ((a % 2) * (b % 2)) + 2 * AndBits(a \div 2, b \div 2)

\* The two operations on a pair of bytes, tabulated once: entry 256 * x + y + 1
\* is x ^ y (x & y).
XorTable == SubSeq([k \in 1..65536 |-> XorBits((k - 1) \div 256, (k - 1) % 256)], 1, 65536)
AndTable == SubSeq([k \in 1..65536 |-> AndBits((k - 1) \div 256, (k - 1) % 256)], 1, 65536)

RECURSIVE BitXor(_, _)
\* a ^ b, byte by byte
BitXor(a, b) ==
  IF a = 0 THEN b
  ELSE IF b = 0 THEN a
  ELSE XorTable[256 * (a % 256) + (b % 256) + 1] + 256 * BitXor(a \div 256, b \div 256)

RECURSIVE BitAnd(_, _)
\* a & b, byte by byte
BitAnd(a, b) ==
  IF a = 0 \/ b = 0 THEN 0
  ELSE AndTable[256 * (a % 256) + (b % 256) + 1] + 256 * BitAnd(a \div 256, b \div 256)

\* a << n
ShiftLeft(a, n) == a * (2 ^ n)

(***************************************************************************)
(* CRC-16: crc16 of core/payload.py and crc16_ccitt of core/crc16.py.      *)
(***************************************************************************)

POLY == 4129     \* 0x1021
INIT == 65535    \* 0xFFFF
MASK16 == 65535  \* 0xFFFF
TOPBIT == 32768  \* 0x8000

HexDigits == <<"0", "1", "2", "3", "4", "5", "6", "7", "8", "9",
               "A", "B", "C", "D", "E", "F">>

RECURSIVE HexUpper(_)
\* the uppercase hexadecimal digits of n, without padding ("X")
HexUpper(n) ==
  IF n < 16 THEN <<HexDigits[n + 1]>>
  ELSE HexUpper(n \div 16) \o <<HexDigits[(n % 16) + 1]>>

RECURSIVE ZeroPad(_, _)
\* pad a string of digits with "0" on the left to a minimum width
ZeroPad(s, width) == IF Len(s) >= width THEN s ELSE ZeroPad(<<"0">> \o s, width)

\* f"{crc:04X}"
Format04X(crc) == ZeroPad(HexUpper(crc), 4)

RECURSIVE Crc16Bits(_, _)
\* the inner loop of crc16 (`for _ in range(8)`): n more rounds
Crc16Bits(crc, n) ==
  IF n = 0 THEN crc
  ELSE IF BitAnd(crc, TOPBIT) # 0
    THEN Crc16Bits(BitAnd(BitXor(ShiftLeft(crc, 1), POLY), MASK16), n - 1)
    ELSE Crc16Bits(BitAnd(ShiftLeft(crc, 1), MASK16), n - 1)

\* one round of the outer loop of crc16 (`for b in payload_bytes`)
Crc16Byte(crc, b) == Crc16Bits(BitXor(crc, ShiftLeft(b, 8)), 8)

\* crc16(payload_bytes) of core/payload.py.  reg[crc, lo, hi] is the register
\* after the bytes lo..hi, taken in order from the register crc; the range is
\* split in halves, which keeps the evaluation shallow.
crc16(payload_bytes) ==
  LET reg[crc \in 0..MASK16, lo \in 1..Len(payload_bytes) + 1,
          hi \in 0..Len(payload_bytes)] ==
        IF lo > hi THEN crc
        ELSE IF lo = hi THEN Crc16Byte(crc, payload_bytes[lo])
        ELSE reg[reg[crc, lo, (lo + hi) \div 2], (lo + hi) \div 2 + 1, hi]
  IN Format04X(reg[INIT, 1, Len(payload_bytes)])

RECURSIVE CcittBitsIbm(_, _)
\* the inner loop with the polynomial of CRC-16/IBM, 0x8005, in place of POLY
CcittBitsIbm(crc, n) ==
  IF n = 0 THEN crc
  ELSE IF BitAnd(crc, TOPBIT) # 0
    THEN CcittBitsIbm(BitXor(BitAnd(ShiftLeft(crc, 1), MASK16), 32773), n - 1)
    ELSE CcittBitsIbm(BitAnd(ShiftLeft(crc, 1), MASK16), n - 1)

RECURSIVE CcittBits(_, _)
\* the inner loop of crc16_ccitt
CcittBits(crc, n) ==
  IF n = 0 THEN crc
  ELSE IF BitAnd(crc, TOPBIT) # 0
    THEN CcittBits(BitXor(BitAnd(ShiftLeft(crc, 1), MASK16), POLY), n - 1)
    ELSE CcittBits(BitAnd(ShiftLeft(crc, 1), MASK16), n - 1)

\* one round of the outer loop of crc16_ccitt
CcittByte(crc, b) == CcittBits(BitXor(crc, ShiftLeft(b, 8)), 8)

\* crc16_ccitt(data) of core/crc16.py
crc16_ccitt(data) ==
  LET reg[crc \in 0..MASK16, lo \in 1..Len(data) + 1, hi \in 0..Len(data)] ==
        IF lo > hi THEN crc
        ELSE IF lo = hi THEN CcittByte(crc, data[lo])
        ELSE reg[reg[crc, lo, (lo + hi) \div 2], (lo + hi) \div 2 + 1, hi]
  IN Format04X(reg[INIT, 1, Len(data)])

(***************************************************************************)
(* str methods and the re / unicodedata calls the encoder uses.            *)
(***************************************************************************)

Range(s) == {s[i] : i \in 1..Len(s)}

Indices(s) == [i \in 1..Len(s) |-> i]

Min(S) == CHOOSE x \in S : \A y \in S : x <= y
Max(S) == CHOOSE x \in S : \A y \in S : x >= y

\* sep.join(list); the concatenation is split in halves, which keeps the
\* evaluation shallow.
Join(sep, list) ==
  LET cat[lo \in 1..Len(list) + 1, hi \in 0..Len(list)] ==
        IF lo > hi THEN <<>>
        ELSE IF lo = hi THEN list[lo]
        ELSE cat[lo, (lo + hi) \div 2] \o sep \o cat[(lo + hi) \div 2 + 1, hi]
  IN cat[1, Len(list)]

\* c.isspace(), which is also what \s matches and what strip() and split() cut
IsSpace(c) == c \in {" ", "TAB", "U+00A0"}

\* the class [0-9]
IsDigit(c) == ord[c] >= 48 /\ ord[c] <= 57

\* the classes [A-Z] and [a-z]
IsAsciiUpper(c) == ord[c] >= 65 /\ ord[c] <= 90
IsAsciiLower(c) == ord[c] >= 97 /\ ord[c] <= 122

\* c.lower() for one character
LowerChar(c) ==
  IF IsAsciiUpper(c) THEN chr[ord[c] + 32]
  ELSE IF c = "U+00C3" THEN "U+00E3"
  ELSE IF c = "U+00C9" THEN "U+00E9"
  ELSE IF c = "U+00CA" THEN "U+00EA"
  ELSE IF c = "U+212A" THEN "k"
  ELSE c

\* c.upper() for one character
UpperChar(c) ==
  IF IsAsciiLower(c) THEN chr[ord[c] - 32]
  ELSE IF c = "U+00E3" THEN "U+00C3"
  ELSE IF c = "U+00E9" THEN "U+00C9"
  ELSE IF c = "U+00EA" THEN "U+00CA"
  ELSE c

\* s.lower() and s.upper()
lower(s) == [i \in 1..Len(s) |-> LowerChar(s[i])]
upper(s) == [i \in 1..Len(s) |-> UpperChar(s[i])]

\* s.strip()
strip(s) ==
  LET keep == {i \in 1..Len(s) : ~IsSpace(s[i])}
  IN IF keep = {} THEN <<>> ELSE SubSeq(s, Min(keep), Max(keep))

\* s.startswith(prefix)
startswith(s, prefix) ==
  Len(s) >= Len(prefix) /\ SubSeq(s, 1, Len(prefix)) = prefix

\* s.split(): the maximal runs of non-whitespace characters, in order
split(s) ==
  LET IsStart(i) == ~IsSpace(s[i]) /\ (i = 1 \/ IsSpace(s[i - 1]))
      IsEnd(i) == ~IsSpace(s[i]) /\ (i = Len(s) \/ IsSpace(s[i + 1]))
      starts == SelectSeq(Indices(s), IsStart)
      ends == SelectSeq(Indices(s), IsEnd)
  IN [k \in 1..Len(starts) |-> SubSeq(s, starts[k], ends[k])]

\* s[:n]
Prefix(s, n) == SubSeq(s, 1, IF Len(s) < n THEN Len(s) ELSE n)

\* the canonical decomposition of one character
DecomposeChar(c) ==
  IF c = "U+00C3" THEN <<"A", "U+0303">>
  ELSE IF c = "U+00C9" THEN <<"E", "U+0301">>
  ELSE IF c = "U+00CA" THEN <<"E", "U+0302">>
  ELSE IF c = "U+00E3" THEN <<"a", "U+0303">>
  ELSE IF c = "U+00E9" THEN <<"e", "U+0301">>
  ELSE IF c = "U+00EA" THEN <<"e", "U+0302">>
  ELSE IF c = "U+212A" THEN <<"K">>
  ELSE <<c>>

\* unicodedata.normalize('NFD', text).  The combining marks of the model
\* have the same combining class, so NFD never reorders them.
NFD(text) == Join(<<>>, [i \in 1..Len(text) |-> DecomposeChar(text[i])])

\* unicodedata.category(char) == 'Mn'
IsMn(c) == c \in {"U+0301", "U+0302", "U+0303"}

(***************************************************************************)
(* normalize_pix_key                                                       *)
(***************************************************************************)

normalize_pix_key(chave_in) ==
  IF chave_in = <<>> THEN chave_in
  ELSE
    LET chave == strip(chave_in)
        only_numbers == SelectSeq(chave, IsDigit)
    IN IF "@" \in Range(chave) THEN lower(chave)
       ELSE IF Len(only_numbers) = 13 /\ startswith(only_numbers, <<"5", "5">>)
         THEN <<"+">> \o only_numbers
       ELSE IF startswith(chave, <<"+">>) /\ Len(only_numbers) = 13 THEN chave
       ELSE IF Len(only_numbers) = 11
         THEN IF only_numbers[1] = "0" THEN only_numbers
              ELSE IF "." \in Range(chave) \/ "-" \in Range(chave) THEN only_numbers
              ELSE IF Len(only_numbers) = 11 /\ only_numbers[3] \in {"9", "8", "7"}
                THEN <<"+", "5", "5">> \o only_numbers
              ELSE only_numbers
       ELSE IF Len(only_numbers) = 14 THEN only_numbers
       ELSE chave

(***************************************************************************)
(* normalize_text                                                          *)
(***************************************************************************)

\* a character class that keeps '&' as well
IsKeptWithAmpersand(c) ==
  IsAsciiUpper(c) \/ IsAsciiLower(c) \/ IsDigit(c) \/ IsSpace(c) \/ c = "&"

\* the characters re.sub(r'[^A-Za-z0-9\s]', '', ...) keeps
IsKept(c) == IsAsciiUpper(c) \/ IsAsciiLower(c) \/ IsDigit(c) \/ IsSpace(c)

normalize_text(text) ==
  IF text = <<>> THEN <<>>
  ELSE
    LET NotMn(c) == ~IsMn(c)
        text_nfd == NFD(text)
        text_without_accents == SelectSeq(text_nfd, NotMn)
        text_clean == SelectSeq(text_without_accents, IsKept)
        text_upper == upper(text_clean)
        text_final == Join(<<" ">>, split(text_upper))
    IN text_final

(***************************************************************************)
(* The TLV fields and build_pix_payload                                    *)
(***************************************************************************)

NAME_MAX == 25
CITY_MAX == 15
DESC_MAX == 72
TXID_MAX == 25
TXID_CUT == 25

Digits == <<"0", "1", "2", "3", "4", "5", "6", "7", "8", "9">>

RECURSIVE Decimal(_)
\* the decimal digits of n >= 0, without padding ("d")
Decimal(n) ==
  IF n < 10 THEN <<Digits[n + 1]>>
  ELSE Decimal(n \div 10) \o <<Digits[(n % 10) + 1]>>

\* f"{length:02d}"
Format02d(length) == ZeroPad(Decimal(length), 2)

\* f"{tag}{len(block):02d}".encode("utf-8") + block: the tag, the length in
\* bytes as two digits at least, and the bytes
emv_block_bytes(tag, block) == encode(tag \o Format02d(Len(block))) \o block

\* _emv_field_bytes(tag, value): tag + len (2 digits, in bytes) + value (utf-8)
emv_field_bytes(tag, value) == emv_block_bytes(tag, encode(value))

\* a cut one character late: s[:n + 1]
TruncateOneMore(s, n) == IF Len(s) > n THEN Prefix(s, n + 1) ELSE s

\* `if len(s) > n: s = s[:n]`
Truncate(s, n) == IF Len(s) > n THEN Prefix(s, n) ELSE s

\* An amount is None, a float, a str or the float nan.  A float is held as a
\* whole number of thousandths (mills); the values of the model are not half
\* way between two hundredths, where the binary value of the float decides.
NoValor == [kind |-> "None", mills |-> 0]
Float(mills) == [kind |-> "float", mills |-> mills]
StrValor == [kind |-> "str", mills |-> 0]
NanValor == [kind |-> "nan", mills |-> 0]

\* f"{valor:.2f}" for a positive float or nan
FormatAmount(valor) ==
  IF valor.kind = "nan" THEN <<"n", "a", "n">>
  ELSE LET cents == (valor.mills + 5) \div 10
       IN Decimal(cents \div 100) \o <<".">> \o ZeroPad(Decimal(cents % 100), 2)

\* the results of a call
Returned(payload) == [kind |-> "return", payload |-> payload, msg |-> ""]
Raised(kind, msg) == [kind |-> kind, payload |-> <<>>, msg |-> msg]

\* the checks with `valor < 0` in place of `valor <= 0`
ValidateNegativeOnly(a) ==
  IF a.chave_pix = <<>> THEN Raised("ValueError", "chave_pix e obrigatorio")
  ELSE IF a.merchant_name = <<>> \/ a.merchant_city = <<>>
    THEN Raised("ValueError", "merchant_name e merchant_city sao obrigatorios")
  ELSE IF a.valor.kind = "str"
    THEN Raised("TypeError", "'<' not supported between instances of 'str' and 'int'")
  ELSE IF a.valor.kind = "float" /\ a.valor.mills < 0
    THEN Raised("ValueError", "valor deve ser positivo")
  ELSE IF a.txid # <<>> /\ Len(a.txid) > TXID_MAX
    THEN Raised("ValueError", "txid deve ter no maximo 25 caracteres")
  ELSE Returned(<<>>)

\* the checks without the one of the length of the txid
ValidateNoTxidCap(a) ==
  IF a.chave_pix = <<>> THEN Raised("ValueError", "chave_pix e obrigatorio")
  ELSE IF a.merchant_name = <<>> \/ a.merchant_city = <<>>
    THEN Raised("ValueError", "merchant_name e merchant_city sao obrigatorios")
  ELSE IF a.valor.kind = "str"
    THEN Raised("TypeError", "'<=' not supported between instances of 'str' and 'int'")
  ELSE IF a.valor.kind = "float" /\ a.valor.mills <= 0
    THEN Raised("ValueError", "valor deve ser positivo")
  ELSE Returned(<<>>)

\* the four checks at the head of build_pix_payload: "ok", or what is raised.
\* `valor <= 0` raises TypeError for a str.  The messages are written here
\* without their accents.
Validate(a) ==
  IF a.chave_pix = <<>> THEN Raised("ValueError", "chave_pix e obrigatorio")
  ELSE IF a.merchant_name = <<>> \/ a.merchant_city = <<>>
    THEN Raised("ValueError", "merchant_name e merchant_city sao obrigatorios")
  ELSE IF a.valor.kind = "str"
    THEN Raised("TypeError", "'<=' not supported between instances of 'str' and 'int'")
  ELSE IF a.valor.kind = "float" /\ a.valor.mills <= 0
    THEN Raised("ValueError", "valor deve ser positivo")
  ELSE IF a.txid # <<>> /\ Len(a.txid) > TXID_MAX
    THEN Raised("ValueError", "txid deve ter no maximo 25 caracteres")
  ELSE Returned(<<>>)

\* the list `mai`, the subfields of block 26, from the normalized key and the
\* normalized, cut description
MaiList(description, chave_pix_normalizada, normalized_desc) ==
  << emv_field_bytes(<<"0", "0">>, <<"B", "R", ".", "G", "O", "V", ".", "B", "C", "B", ".", "P", "I", "X">>),
     emv_field_bytes(<<"0", "1">>, chave_pix_normalizada) >>
  \o (IF description # <<>> /\ normalized_desc # <<>>
        THEN <<emv_field_bytes(<<"0", "2">>, normalized_desc)>> ELSE <<>>)

MaiFields(a) ==
  MaiList(a.description, normalize_pix_key(a.chave_pix),
          Prefix(normalize_text(a.description), DESC_MAX))

\* the list `parts` up to field 58 with field 01 always "11"
PartsTo58AlwaysStatic(a, mai_list) ==
  << emv_field_bytes(<<"0", "0">>, <<"0", "1">>),
     emv_field_bytes(<<"0", "1">>, <<"1", "1">>),
     emv_block_bytes(<<"2", "6">>, Join(<<>>, mai_list)),
     emv_field_bytes(<<"5", "2">>, <<"0", "0", "0", "0">>),
     emv_field_bytes(<<"5", "3">>, <<"9", "8", "6">>) >>
  \o (IF a.valor.kind # "None"
        THEN <<emv_field_bytes(<<"5", "4">>, FormatAmount(a.valor))>> ELSE <<>>)
  \o <<emv_field_bytes(<<"5", "8">>, <<"B", "R">>)>>

\* the list `parts` up to field 58 with the fields 52 and 53 exchanged
PartsTo58Swapped(a, mai_list) ==
  << emv_field_bytes(<<"0", "0">>, <<"0", "1">>),
     emv_field_bytes(<<"0", "1">>, IF a.dynamic THEN <<"1", "2">> ELSE <<"1", "1">>),
     emv_block_bytes(<<"2", "6">>, Join(<<>>, mai_list)),
     emv_field_bytes(<<"5", "3">>, <<"9", "8", "6">>),
     emv_field_bytes(<<"5", "2">>, <<"0", "0", "0", "0">>) >>
  \o (IF a.valor.kind # "None"
        THEN <<emv_field_bytes(<<"5", "4">>, FormatAmount(a.valor))>> ELSE <<>>)
  \o <<emv_field_bytes(<<"5", "8">>, <<"B", "R">>)>>

\* the list `parts` up to field 58, around the list `mai`
PartsTo58(a, mai_list) ==
  << emv_field_bytes(<<"0", "0">>, <<"0", "1">>),
     emv_field_bytes(<<"0", "1">>, IF a.dynamic THEN <<"1", "2">> ELSE <<"1", "1">>),
     emv_block_bytes(<<"2", "6">>, Join(<<>>, mai_list)),
     emv_field_bytes(<<"5", "2">>, <<"0", "0", "0", "0">>),
     emv_field_bytes(<<"5", "3">>, <<"9", "8", "6">>) >>
  \o (IF a.valor.kind # "None"
        THEN <<emv_field_bytes(<<"5", "4">>, FormatAmount(a.valor))>> ELSE <<>>)
  \o <<emv_field_bytes(<<"5", "8">>, <<"B", "R">>)>>

\* the field `sub_62` (subfield 05 of block 62), <<>> when block 62 is left out
Sub62Field(txid, normalized_txid) ==
  IF txid # <<>> /\ normalized_txid # <<>>
    THEN emv_field_bytes(<<"0", "5">>, normalized_txid) ELSE <<>>

Sub62(a) == Sub62Field(a.txid, Prefix(normalize_text(a.txid), TXID_CUT))

\* `payload_bytes_no_crc + crc.encode("utf-8")`, decoded
AppendCrc(payload_bytes_no_crc) ==
  decode(payload_bytes_no_crc \o encode(crc16(payload_bytes_no_crc)))

\* the CRC taken over the parts alone, without the "6304" that follows them
CrcOfParts(joined) ==
  decode(joined \o encode(<<"6", "3", "0", "4">>) \o encode(crc16(joined)))

FinishCrcOverParts(parts_list) == CrcOfParts(Join(<<>>, parts_list))

\* the bytes of the parts, "6304", and the CRC of all of that
Finish(parts_list) ==
  AppendCrc(Join(<<>>, parts_list) \o encode(<<"6", "3", "0", "4">>))

\* what a call leaves: its result, and the lists `parts` and `mai` and the
\* field `sub_62` as they stand when it returns or raises
Outcome(result, parts_list, mai_list, sub62) ==
  [ret |-> result, parts |-> parts_list, mai |-> mai_list, sub_62 |-> sub62]

\* the end of the call: the CRC and the return
Complete(parts_list, mai_list, sub62) ==
  Outcome(Returned(Finish(parts_list)), parts_list, mai_list, sub62)

\* block 62, when there is a txid
AddTxid(parts_list, mai_list, sub62) ==
  Complete(IF sub62 # <<>>
             THEN Append(parts_list, emv_block_bytes(<<"6", "2">>, sub62))
             ELSE parts_list,
           mai_list, sub62)

\* field 60, the city
AddCity(a, parts_list, mai_list, normalized_city) ==
  IF normalized_city = <<>>
    THEN Outcome(Raised("ValueError",
                        "merchant_city nao pode estar vazio apos normalizacao"),
                 parts_list, mai_list, <<>>)
    ELSE AddTxid(Append(parts_list, emv_field_bytes(<<"6", "0">>, normalized_city)),
                 mai_list, Sub62(a))

\* field 59, the name
AddName(a, parts_list, mai_list, normalized_name) ==
  IF normalized_name = <<>>
    THEN Outcome(Raised("ValueError",
                        "merchant_name nao pode estar vazio apos normalizacao"),
                 parts_list, mai_list, <<>>)
    ELSE AddCity(a, Append(parts_list, emv_field_bytes(<<"5", "9">>, normalized_name)),
                 mai_list, Truncate(normalize_text(a.merchant_city), CITY_MAX))

\* the fields 00 to 58, around block 26
AddFields(a, mai_list) ==
  AddName(a, PartsTo58(a, mai_list), mai_list,
          Truncate(normalize_text(a.merchant_name), NAME_MAX))

\* the body of the call after the checks
Checked(a, checked) ==
  IF checked.kind # "return"
    THEN Outcome(checked, <<>>, <<>>, <<>>)
    ELSE AddFields(a, MaiFields(a))

\* build_pix_payload(chave_pix, merchant_name, merchant_city, valor, txid,
\* description, dynamic): what it returns or raises, with the lists `parts` and
\* `mai` and the field `sub_62` as the call leaves them.
build_pix_payload(a) == Checked(a, Validate(a))

(***************************************************************************)
(* The calls of build_pix_payload that are checked.                        *)
(***************************************************************************)

\* the bounds of the model
MaxVaried == 2
LongKeyLen == 100
LongNameLen == 27
LongTxidLen == 26
LongDescLen == 80

\* n times the character c
Rep(c, n) == [i \in 1..n |-> c]

DefaultArgs ==
  [chave_pix |-> <<"t", "e", "s", "t", "e", "@", "e", "m", "a", "i", "l", ".", "c", "o", "m">>,
   merchant_name |-> <<"L", "O", "J", "A", " ", "T", "E", "S", "T", "E">>,
   merchant_city |-> <<"S", "A", "O", " ", "P", "A", "U", "L", "O">>,
   valor |-> Float(10000),
   txid |-> <<>>,
   description |-> <<>>,
   dynamic |-> FALSE]

KeyValues ==
  { DefaultArgs.chave_pix, <<>>, <<"1", "1", "9", "9", "9", "9", "9", "9", "9", "9", "9">>, <<"0", "0", "0", ".", "0", "0", "0", ".", "0", "0", "1", "-", "9", "1">>,
    <<"1", "2", "3", ".", "4", "5", "6", ".", "7", "8", "9", "-", "0", "9">>, <<"J", "o", "s", "U+00E9", "@", "X", ".", "c", "o", "m">>, <<" ", " ", " ">>, <<"+", "1", "2", "-", "3", "4", "5", "6", "7", "8", "9", "0", "1", "2", "3">>,
    Rep("k", LongKeyLen) }

NameValues ==
  { DefaultArgs.merchant_name, <<>>, <<"J", "o", "s", "U+00E9", " ", "d", "a", " ", "S", "i", "l", "v", "a">>, <<"&", "&", "&">>, <<"L", "O", "J", "A", " ", "&", " ", "C", "I", "A">>,
    <<"N", "O", "M", "E", " ", "M", "U", "I", "T", "O", " ", "L", "O", "N", "G", "O", " ", "Q", "U", "E", " ", "D", "E", "V", "E", " ", "S", "E", "R", " ", "T", "R", "U", "N", "C", "A", "D", "O">>, Rep("U+00C9", LongNameLen) }

CityValues ==
  { DefaultArgs.merchant_city, <<>>, <<"S", "U+00E3", "o", " ", "P", "a", "u", "l", "o">>, <<"-", "-", "-">>, <<"R", "I", "O", " ", "D", "E", " ", "J", "A", "N", "E", "I", "R", "O", " ", "R", "J">> }

ValorValues ==
  { DefaultArgs.valor, NoValor, Float(0), Float(-1000), Float(1), Float(15994),
    StrValor, NanValor }

TxidValues ==
  { DefaultArgs.txid, <<"T", "X", "1", "2", "3">>, <<"p", "e", "d", "i", "d", "o", " ", "n", "U+00BA", " ", "1">>, <<"*", "*", "*">>, Rep("T", TXID_MAX),
    Rep("U+00C9", LongTxidLen), Rep("-", LongTxidLen) \o <<"A">> }

DescValues ==
  { DefaultArgs.description, <<"P", "a", "g", "a", "m", "e", "n", "t", "o", " ", "n", "U+00BA", " ", "1", "2", "3", " ", "-", " ", "R", "e", "f", "e", "r", "U+00EA", "n", "c", "i", "a">>, <<"!", "!", "!">>,
    Rep("A", LongDescLen) }

ArgNames ==
  {"chave_pix", "merchant_name", "merchant_city", "valor", "txid",
   "description", "dynamic"}

\* the calls: at most MaxVaried arguments differ from DefaultArgs
BuildInputs ==
  { a \in [chave_pix : KeyValues, merchant_name : NameValues,
           merchant_city : CityValues, valor : ValorValues, txid : TxidValues,
           description : DescValues, dynamic : BOOLEAN] :
      Cardinality({f \in ArgNames : a[f] # DefaultArgs[f]}) <= MaxVaried }

NoResult == [kind |-> "none", payload |-> <<>>, msg |-> ""]

Init ==
  /\ pc = "call"
  /\ args \in BuildInputs
  /\ parts = <<>>
  /\ mai = <<>>
  /\ sub_62 = <<>>
  /\ ret = NoResult

\* one call of build_pix_payload
Build ==
  /\ pc = "call"
  /\ \E r \in {build_pix_payload(args)} :
       /\ ret' = r.ret
       /\ parts' = r.parts
       /\ mai' = r.mai
       /\ sub_62' = r.sub_62
  /\ pc' = "done"
  /\ UNCHANGED args

Next == Build

Spec == Init /\ [][Next]_vars

(***************************************************************************)
(* The two CRC functions on one byte sequence: crc16 of core/payload.py,   *)
(* then crc16_ccitt of core/crc16.py.                                      *)
(***************************************************************************)

MaxCrcLen == 3

CrcBytes == {0, 49, 128, 255}

\* the ASCII bytes of "123456789"
CheckVector == encode(<<"1", "2", "3", "4", "5", "6", "7", "8", "9">>)

CrcInputs == UNION {[1..n -> CrcBytes] : n \in 0..MaxCrcLen} \cup {CheckVector}

InitCrc ==
  /\ pc = "call"
  /\ args \in CrcInputs
  /\ parts = <<>>
  /\ mai = <<>>
  /\ sub_62 = <<>>
  /\ ret = <<>>

CallCrc16 ==
  /\ pc = "call"
  /\ ret' = <<crc16(args)>>
  /\ pc' = "crc16"
  /\ UNCHANGED <<args, parts, mai, sub_62>>

CallCrc16Ccitt ==
  /\ pc = "crc16"
  /\ ret' = Append(ret, crc16_ccitt(args))
  /\ pc' = "done"
  /\ UNCHANGED <<args, parts, mai, sub_62>>

NextCrc == CallCrc16 \/ CallCrc16Ccitt

SpecCrc == InitCrc /\ [][NextCrc]_vars

(***************************************************************************)
(* normalize_pix_key on its own.                                           *)
(***************************************************************************)

MaxKeyDigits == 14

KeyHeads == {<<"0", "0">>, <<"1", "1">>, <<"5", "5">>, <<"1", "2">>}

\* digit strings of 10..MaxKeyDigits digits: two leading digits, a third digit
\* and a run of 4s
KeyDigits ==
  { h \o <<t>> \o Rep("4", n - 3) : h \in KeyHeads, t \in {"3", "9"}, n \in 10..MaxKeyDigits }

\* d plain (0), with a dot after the third character (1), with a hyphen before
\* the last two (2), with a space after the second (3)
WithSep(d, k) ==
  IF k = 1 THEN SubSeq(d, 1, 3) \o <<".">> \o SubSeq(d, 4, Len(d))
  ELSE IF k = 2 THEN SubSeq(d, 1, Len(d) - 2) \o <<"-">> \o SubSeq(d, Len(d) - 1, Len(d))
  ELSE IF k = 3 THEN SubSeq(d, 1, 2) \o <<" ">> \o SubSeq(d, 3, Len(d))
  ELSE d

KeyExamples ==
  { <<>>, <<"0", "0", "0", ".", "0", "0", "0", ".", "0", "0", "1", "-", "9", "1">>, <<"1", "1", "9", "9", "9", "9", "9", "9", "9", "9", "9">>, <<"+", "5", "5", "1", "1", "9", "9", "9", "9", "9", "9", "9", "9", "9">>, <<"5", "5", "1", "1", "9", "9", "9", "9", "9", "9", "9", "9", "9">>,
    <<"J", "o", "s", "U+00E9", "@", "X", ".", "c", "o", "m">>, <<" ", "A", "@", "b", ".", "c", " ">>, <<"+", "1", "2", "-", "3", "4", "5", "6", "7", "8", "9", "0", "1", "2", "3">>, <<"1", "2", ".", "3", "4", "5", ".", "6", "7", "8", "/", "0", "0", "0", "1", "-", "9", "0">>,
    <<"1", "2", "3", "e", "4", "5", "6", "7", "-", "e", "8", "9", "b", "-", "1", "2", "d", "3", "-", "a", "4", "5", "6", "-", "4", "2", "6", "6", "1", "4", "1", "7", "4", "0", "0", "0">>, <<"(", "1", "1", ")", " ", "9", "9", "9", "9", "9", "-", "9", "9", "9", "9">> }

KeyInputs ==
  { pre \o WithSep(d, k) \o suf :
      pre \in {<<>>, <<"+">>, <<" ">>}, d \in KeyDigits, k \in 0..3,
      suf \in {<<>>, <<" ">>} }
  \cup KeyExamples

InitKey ==
  /\ pc = "call"
  /\ args \in KeyInputs
  /\ parts = <<>>
  /\ mai = <<>>
  /\ sub_62 = <<>>
  /\ ret = <<>>

NormalizeKey ==
  /\ pc = "call"
  /\ ret' = normalize_pix_key(args)
  /\ pc' = "done"
  /\ UNCHANGED <<args, parts, mai, sub_62>>

NextKey == NormalizeKey

SpecKey == InitKey /\ [][NextKey]_vars

(***************************************************************************)
(* normalize_text on its own: on a text, then on its own result.           *)
(***************************************************************************)

MaxTextLen == 3

TextChars == {"a", "B", "1", " ", "U+00A0", "U+00E9", "&", "-", "U+0301", "U+212A"}

TextExamples == {<<"L", "O", "J", "A", " ", "T", "E", "S", "T", "E">>, <<" ", "S", "U+00E3", "o", " ", "TAB", "P", "a", "u", "l", "o", "&", "U+00BA", "K", "U+00E9", " ">>, <<"P", "a", "g", "a", "m", "e", "n", "t", "o", " ", "n", "U+00BA", " ", "1", "2", "3", " ", "-", " ", "R", "e", "f", "e", "r", "U+00EA", "n", "c", "i", "a">>}

TextInputs == UNION {[1..n -> TextChars] : n \in 0..MaxTextLen} \cup TextExamples

InitText ==
  /\ pc = "call"
  /\ args \in TextInputs
  /\ parts = <<>>
  /\ mai = <<>>
  /\ sub_62 = <<>>
  /\ ret = <<>>

NormalizeText ==
  /\ pc = "call"
  /\ ret' = <<normalize_text(args)>>
  /\ pc' = "once"
  /\ UNCHANGED <<args, parts, mai, sub_62>>

Renormalize ==
  /\ pc = "once"
  /\ ret' = Append(ret, normalize_text(ret[1]))
  /\ pc' = "done"
  /\ UNCHANGED <<args, parts, mai, sub_62>>

NextText == NormalizeText \/ Renormalize

SpecText == InitText /\ [][NextText]_vars

(***************************************************************************)
(* What the properties below read from a state.                            *)
(***************************************************************************)

\* the last n elements of s
Last(s, n) == SubSeq(s, Len(s) - n + 1, Len(s))

EndsWith(s, suffix) == Len(s) >= Len(suffix) /\ Last(s, Len(suffix)) = suffix

\* the call returned a payload
IsReturned == pc = "done" /\ ret.kind = "return"

\* the tag of an emitted field, and its value when the length has two digits
TagOf(f) == decode(SubSeq(f, 1, 2))
FieldValue(f) == SubSeq(f, 5, Len(f))

Tags(list) == [i \in 1..Len(list) |-> TagOf(list[i])]

\* the value two ASCII decimal digits stand for, -1 when they are not digits
TwoDigits(hi, lo) ==
  IF hi \in 48..57 /\ lo \in 48..57 THEN 10 * (hi - 48) + (lo - 48) ELSE -1

\* a field whose third and fourth bytes are two digits counting the rest
FieldLengthOk(f) == Len(f) >= 4 /\ TwoDigits(f[3], f[4]) = Len(f) - 4

\* every field the call emitted has a two-digit length equal to its byte count
TwoDigitLengths ==
  /\ \A i \in 1..Len(parts) : FieldLengthOk(parts[i])
  /\ \A i \in 1..Len(mai) : FieldLengthOk(mai[i])
  /\ sub_62 # <<>> => FieldLengthOk(sub_62)

RECURSIVE TlvTags(_)
\* the tags a reader finds in b, taking each length as two digits
TlvTags(b) ==
  IF b = <<>> THEN <<>>
  ELSE IF Len(b) < 4 \/ TwoDigits(b[3], b[4]) < 0 THEN <<"malformed">>
  ELSE <<TagOf(b)>> \o TlvTags(SubSeq(b, 5 + TwoDigits(b[3], b[4]), Len(b)))

\* the position of field 59 in `parts`
Index59 == IF args.valor.kind # "None" THEN 8 ELSE 7

(***************************************************************************)
(* C1.                                                                     *)
(***************************************************************************)

\* C1: every returned payload ends with "6304" and 4 characters, which are
\* crc16 of the UTF-8 bytes of the payload up to and including that "6304".
C1_CrcRoundTrip ==
  IsReturned =>
    /\ Len(ret.payload) >= 8
    /\ SubSeq(ret.payload, Len(ret.payload) - 7, Len(ret.payload) - 4) = <<"6", "3", "0", "4">>
    /\ Last(ret.payload, 4)
         = crc16(encode(SubSeq(ret.payload, 1, Len(ret.payload) - 4)))

\* the call of the default arguments has returned its payload
C1_Witness ==
  /\ IsReturned
  /\ args = DefaultArgs
  /\ ret.payload = <<"0", "0", "0", "2", "0", "1", "0", "1", "0", "2", "1", "1", "2", "6", "3", "7", "0", "0", "1", "4", "B", "R", ".", "G", "O", "V", ".", "B", "C", "B", ".", "P", "I", "X", "0", "1", "1", "5", "t", "e", "s", "t", "e", "@", "e", "m", "a", "i", "l", ".", "c", "o", "m", "5", "2", "0", "4", "0", "0", "0", "0", "5", "3", "0", "3", "9", "8", "6", "5", "4", "0", "5", "1", "0", ".", "0", "0", "5", "8", "0", "2", "B", "R", "5", "9", "1", "0", "L", "O", "J", "A", " ", "T", "E", "S", "T", "E", "6", "0", "0", "9", "S", "A", "O", " ", "P", "A", "U", "L", "O", "6", "3", "0", "4", "5", "B", "A", "B">>

(***************************************************************************)
(* C2.                                                                     *)
(***************************************************************************)

RECURSIVE RefBits(_, _)
\* n rounds of: shift left one bit, XOR 0x1021 when the top bit was set, keep
\* 16 bits
RefBits(reg, n) ==
  IF n = 0 THEN reg
  ELSE IF reg >= 32768 THEN RefBits(BitXor((2 * reg) % 65536, 4129), n - 1)
  ELSE RefBits((2 * reg) % 65536, n - 1)

RECURSIVE RefBytes(_, _)
\* each byte XORed into the high byte of the register, then 8 rounds
RefBytes(reg, data) ==
  IF data = <<>> THEN reg
  ELSE RefBytes(RefBits(BitXor(reg, 256 * Head(data)), 8), Tail(data))

UpperHex == <<"0", "1", "2", "3", "4", "5", "6", "7", "8", "9", "A", "B", "C", "D", "E", "F">>

IsUpperHex4(s) == Len(s) = 4 /\ \A i \in 1..4 : \E k \in 1..16 : UpperHex[k] = s[i]

HexDigitValue(c) == (CHOOSE k \in 1..16 : UpperHex[k] = c) - 1

HexValue(s) ==
  4096 * HexDigitValue(s[1]) + 256 * HexDigitValue(s[2])
    + 16 * HexDigitValue(s[3]) + HexDigitValue(s[4])

\* C2: on every byte sequence crc16 and crc16_ccitt return the same string, of
\* exactly 4 uppercase hexadecimal digits, the value of the CRC-16/CCITT-FALSE
\* register (initial value 0xFFFF, polynomial 0x1021); on "123456789" it is
\* "29B1".
C2_SameCrc ==
  pc = "done" =>
    /\ ret[1] = ret[2]
    /\ IsUpperHex4(ret[1])
    /\ HexValue(ret[1]) = RefBytes(65535, args)
    /\ args = CheckVector => ret[1] = <<"2", "9", "B", "1">>

\* both functions have run on "123456789"
C2_Witness == pc = "done" /\ args = CheckVector /\ ret = <<<<"2", "9", "B", "1">>, <<"2", "9", "B", "1">>>>

(***************************************************************************)
(* C3.                                                                     *)
(***************************************************************************)

\* C3: in a returned payload every emitted field (top level, subfield, and the
\* wrappers of blocks 26 and 62) carries a length of exactly 2 decimal digits
\* equal to the byte count of its value.
C3_TwoDigitLengths == IsReturned => TwoDigitLengths

\* a key of LongKeyLen characters: subfield 01 and block 26 have been emitted
\* with lengths of three digits
C3_LongKeyCall ==
  /\ IsReturned
  /\ args.chave_pix = Rep("k", LongKeyLen)
  /\ ~FieldLengthOk(mai[2])
  /\ ~FieldLengthOk(parts[3])

(***************************************************************************)
(* C4.                                                                     *)
(***************************************************************************)

\* the top-level tags in the order C4 gives them, without the closing 63
TagOrder(a, has62) ==
  <<<<"0", "0">>, <<"0", "1">>, <<"2", "6">>, <<"5", "2">>, <<"5", "3">>>>
  \o (IF a.valor.kind # "None" THEN <<<<"5", "4">>>> ELSE <<>>)
  \o <<<<"5", "8">>, <<"5", "9">>, <<"6", "0">>>>
  \o (IF has62 THEN <<<<"6", "2">>>> ELSE <<>>)

\* C4: a returned payload is made of the fields 00, 01, 26, 52, 53, [54], 58,
\* 59, 60, [62] in that order, each once, then "6304" and the CRC; 00 = "01",
\* 52 = "0000", 53 = "986", 58 = "BR"; 01 is "12" when dynamic and "11"
\* otherwise; block 26 is subfield 00 = "BR.GOV.BCB.PIX", subfield 01 with the
\* normalized key, then at most subfield 02; 54 is there exactly when an
\* amount was given.  Where every length has two digits, a reader of the
\* payload finds these tags and then 63, the last one.
C4_FieldOrder ==
  IsReturned =>
    /\ Tags(parts) \in {TagOrder(args, FALSE), TagOrder(args, TRUE)}
    /\ parts[1] = encode(<<"0", "0", "0", "2", "0", "1">>)
    /\ parts[2] = encode(IF args.dynamic THEN <<"0", "1", "0", "2", "1", "2">> ELSE <<"0", "1", "0", "2", "1", "1">>)
    /\ parts[4] = encode(<<"5", "2", "0", "4", "0", "0", "0", "0">>)
    /\ parts[5] = encode(<<"5", "3", "0", "3", "9", "8", "6">>)
    /\ parts[Index59 - 1] = encode(<<"5", "8", "0", "2", "B", "R">>)
    /\ Len(mai) \in {2, 3}
    /\ mai[1] = encode(<<"0", "0", "1", "4", "B", "R", ".", "G", "O", "V", ".", "B", "C", "B", ".", "P", "I", "X">>)
    /\ TagOf(mai[2]) = <<"0", "1">>
    /\ EndsWith(mai[2], encode(normalize_pix_key(args.chave_pix)))
    /\ Len(mai[2]) <= 5 + Len(encode(normalize_pix_key(args.chave_pix)))
    /\ Len(mai) = 3 => TagOf(mai[3]) = <<"0", "2">>
    /\ EndsWith(parts[3], Join(<<>>, mai))
    /\ Len(parts[3]) <= 5 + Len(Join(<<>>, mai))
    /\ SubSeq(encode(ret.payload), 1, Len(encode(ret.payload)) - 4)
         = Join(<<>>, parts) \o encode(<<"6", "3", "0", "4">>)
    /\ TwoDigitLengths => TlvTags(encode(ret.payload)) = Tags(parts) \o <<<<"6", "3">>>>

\* a dynamic payload without amount has been returned
C4_Witness ==
  /\ IsReturned
  /\ args.dynamic
  /\ args.valor = NoValor
  /\ Tags(parts) = <<<<"0", "0">>, <<"0", "1">>, <<"2", "6">>, <<"5", "2">>, <<"5", "3">>, <<"5", "8">>, <<"5", "9">>, <<"6", "0">>>>
  /\ ret.payload = <<"0", "0", "0", "2", "0", "1", "0", "1", "0", "2", "1", "2", "2", "6", "3", "7", "0", "0", "1", "4", "B", "R", ".", "G", "O", "V", ".", "B", "C", "B", ".", "P", "I", "X", "0", "1", "1", "5", "t", "e", "s", "t", "e", "@", "e", "m", "a", "i", "l", ".", "c", "o", "m", "5", "2", "0", "4", "0", "0", "0", "0", "5", "3", "0", "3", "9", "8", "6", "5", "8", "0", "2", "B", "R", "5", "9", "1", "0", "L", "O", "J", "A", " ", "T", "E", "S", "T", "E", "6", "0", "0", "9", "S", "A", "O", " ", "P", "A", "U", "L", "O", "6", "3", "0", "4", "6", "7", "C", "B">>

(***************************************************************************)
(* C5.                                                                     *)
(***************************************************************************)

\* the rules of C5, in its order
ClaimedKey(key) ==
  LET D == SelectSeq(key, IsDigit)
  IN IF "@" \in Range(key) THEN lower(key)
     ELSE IF Len(D) = 13 /\ (startswith(D, <<"5", "5">>) \/ startswith(key, <<"+">>))
       THEN <<"+">> \o D
     ELSE IF Len(D) = 11
       THEN IF D[1] = "0" \/ "." \in Range(key) \/ "-" \in Range(key) THEN D
            ELSE IF D[3] \in {"7", "8", "9"} THEN <<"+", "5", "5">> \o D
            ELSE D
     ELSE IF Len(D) = 14 THEN D
     ELSE key

\* C5: normalize_pix_key rewrites a key by the rules of ClaimedKey: '@' gives
\* the key lowercased; 13 digits starting with 55, or a '+'-prefixed key with
\* 13 digits, give "+" and the digits; 11 digits give the digits, or "+55" and
\* the digits for a phone; 14 digits give the digits; any other key is
\* unchanged.  Stated for the keys without blanks around them.
C5_KeyRules ==
  pc = "done" /\ strip(args) = args => ret = ClaimedKey(args)

\* a '+'-prefixed key of 13 digits, not starting with 55, comes back with its
\* hyphen
C5_PlusKeyCall ==
  /\ pc = "done"
  /\ args = <<"+", "1", "2", "-", "3", "4", "5", "6", "7", "8", "9", "0", "1", "2", "3">>
  /\ ret = args
  /\ ClaimedKey(args) = <<"+", "1", "2", "3", "4", "5", "6", "7", "8", "9", "0", "1", "2", "3">>

(***************************************************************************)
(* C6.                                                                     *)
(***************************************************************************)

ValidationMessages ==
  {"chave_pix e obrigatorio", "merchant_name e merchant_city sao obrigatorios",
   "valor deve ser positivo"}

\* C6: with an empty key, name or city, or an amount that is zero or negative,
\* the call raises ValueError from one of the checks at its head and returns
\* no payload; nothing has been normalized or assembled by then.
C6_RequiredFields ==
  pc = "done"
  /\ (\/ args.chave_pix = <<>>
      \/ args.merchant_name = <<>>
      \/ args.merchant_city = <<>>
      \/ (args.valor.kind = "float" /\ args.valor.mills <= 0))
  => /\ ret.kind = "ValueError"
     /\ ret.msg \in ValidationMessages
     /\ ret.payload = <<>>
     /\ parts = <<>>
     /\ mai = <<>>
     /\ sub_62 = <<>>

\* an amount of zero, with a name that normalization would empty
C6_Witness ==
  /\ pc = "done"
  /\ args.valor = Float(0)
  /\ args.merchant_name = <<"&", "&", "&">>
  /\ ret = Raised("ValueError", "valor deve ser positivo")
  /\ parts = <<>>

(***************************************************************************)
(* C7.                                                                     *)
(***************************************************************************)

\* C7: with an amount that is a text, the call raises ValueError, as for an
\* amount that is not positive, and returns no payload.
C7_NonNumericAmount ==
  pc = "done" /\ args.valor.kind = "str" =>
    ret.kind = "ValueError" /\ ret.payload = <<>>

\* the amount "invalid", the other arguments valid: TypeError
C7_TextAmountCall ==
  /\ pc = "done"
  /\ args = [DefaultArgs EXCEPT !.valor = StrValor]
  /\ ret.kind = "TypeError"

(***************************************************************************)
(* C8.                                                                     *)
(***************************************************************************)

\* the checks before the one of the txid let the call through
EarlierChecksPass(a) ==
  /\ a.chave_pix # <<>>
  /\ a.merchant_name # <<>>
  /\ a.merchant_city # <<>>
  /\ a.valor.kind \in {"None", "nan"} \/ (a.valor.kind = "float" /\ a.valor.mills > 0)

\* C8: a txid of more than 25 characters after normalization makes the call
\* fail, with the txid error when the earlier checks pass; and a returned
\* payload with block 62 carries the whole normalized txid in subfield 05.
C8_TxidNotTruncated ==
  pc = "done" =>
    /\ Len(normalize_text(args.txid)) > 25 =>
         /\ ret.kind # "return"
         /\ ret.payload = <<>>
         /\ EarlierChecksPass(args) =>
              ret = Raised("ValueError", "txid deve ter no maximo 25 caracteres")
    /\ ret.kind = "return" /\ sub_62 # <<>> =>
         /\ TagOf(sub_62) = <<"0", "5">>
         /\ FieldValue(sub_62) = encode(normalize_text(args.txid))
         /\ TagOf(parts[Len(parts)]) = <<"6", "2">>
         /\ FieldValue(parts[Len(parts)]) = sub_62

\* a txid of more than 25 characters after normalization has been refused
C8_Witness ==
  /\ pc = "done"
  /\ Len(normalize_text(args.txid)) > 25
  /\ EarlierChecksPass(args)
  /\ ret = Raised("ValueError", "txid deve ter no maximo 25 caracteres")

(***************************************************************************)
(* C9.                                                                     *)
(***************************************************************************)

\* the longest prefix of s whose UTF-8 encoding has at most n bytes
LongestFit(s, n) ==
  Prefix(s, Max({k \in 0..Len(s) : Len(encode(Prefix(s, k))) <= n}))

IsNormalForm(s) ==
  /\ \A i \in 1..Len(s) : IsAsciiUpper(s[i]) \/ IsDigit(s[i]) \/ s[i] = " "
  /\ s # <<>> => s[1] # " " /\ s[Len(s)] # " "
  /\ \A i \in 1..Len(s) - 1 : ~(s[i] = " " /\ s[i + 1] = " ")

OccursAt(s, sub, i) ==
  i >= 1 /\ i + Len(sub) - 1 <= Len(s) /\ SubSeq(s, i, i + Len(sub) - 1) = sub

\* `sub in s`
Contains(s, sub) == \E i \in 1..Len(s) : OccursAt(s, sub, i)

\* the call of the dynamic-flag example: the default arguments, dynamic
DynamicArgs == [DefaultArgs EXCEPT !.dynamic = TRUE]

FieldText(f) == decode(FieldValue(f))

\* C12: '&' and '-' of the name and of the description are kept in the
\* embedded values: the name "LOJA & CIA" is in the payload as it is, the
\* description "Pagamento nº 123 - Referência" is in the upper-cased payload
\* as "PAGAMENTO N 123 - REFERENCIA".
C12_PunctuationKept ==
  IsReturned =>
    /\ args.merchant_name = <<"L", "O", "J", "A", " ", "&", " ", "C", "I", "A">> => Contains(ret.payload, <<"L", "O", "J", "A", " ", "&", " ", "C", "I", "A">>)
    /\ args.description = <<"P", "a", "g", "a", "m", "e", "n", "t", "o", " ", "n", "U+00BA", " ", "1", "2", "3", " ", "-", " ", "R", "e", "f", "e", "r", "U+00EA", "n", "c", "i", "a">> =>
         Contains(upper(ret.payload), <<"P", "A", "G", "A", "M", "E", "N", "T", "O", " ", "N", " ", "1", "2", "3", " ", "-", " ", "R", "E", "F", "E", "R", "E", "N", "C", "I", "A">>)
    /\ \A c \in {"&", "-"} :
         /\ c \in Range(args.merchant_name) => c \in Range(FieldText(parts[Index59]))
         /\ c \in Range(args.description) =>
              Len(mai) = 3 /\ c \in Range(FieldText(mai[3]))

\* the name "LOJA & CIA" has been embedded as "LOJA CIA"
C12_AmpersandCall ==
  /\ IsReturned
  /\ args.merchant_name = <<"L", "O", "J", "A", " ", "&", " ", "C", "I", "A">>
  /\ FieldText(parts[Index59]) = <<"L", "O", "J", "A", " ", "C", "I", "A">>
  /\ ~Contains(ret.payload, <<"&">>)

(***************************************************************************)
(* generate_pix_qrcode: the payload of build_pix_payload (dynamic is not   *)
(* passed on), then the check of its CRC.  The drawing of the image by the *)
(* qrcode library, after the check, is left out.                           *)
(***************************************************************************)

\* s.rfind(sub): the highest index, counted from 0, where sub occurs, or -1
rfind(s, sub) ==
  IF Contains(s, sub) THEN Max({i \in 1..Len(s) : OccursAt(s, sub, i)}) - 1 ELSE -1

\* the slice s[lo:hi], indices counted from 0
Slice(s, lo, hi) == SubSeq(s, lo + 1, IF hi < Len(s) THEN hi ELSE Len(s))

\* what generate_pix_qrcode leaves: "return" when it went on to draw and
\* return output_path, or the error raised; with its local `payload`
QrResult(kind, payload, msg) == [kind |-> kind, payload |-> payload, msg |-> msg]

\* the comparison of check_crc and given_crc; given_crc is None, and so
\* unequal, when the payload has fewer than idx + 8 characters
CompareCrc(payload, idx, check_crc) ==
  IF Len(payload) >= idx + 8 /\ check_crc = Slice(payload, idx + 4, idx + 8)
    THEN QrResult("return", payload, "")
    ELSE QrResult("RuntimeError", payload, "CRC mismatch")

\* the sanity check from idx = payload.rfind("63") on
CheckCrcAt(payload, idx) ==
  IF idx = -1
    THEN QrResult("RuntimeError", payload, "Payload mal formado (sem 63 CRC).")
    ELSE CompareCrc(payload, idx, crc16(encode(Slice(payload, 0, idx) \o <<"6", "3", "0", "4">>)))

\* the sanity check of a payload
SanityCheck(payload) == CheckCrcAt(payload, rfind(payload, <<"6", "3">>))

\* after the call of build_pix_payload: its error goes on to the caller
AfterBuild(built) ==
  IF built.ret.kind # "return"
    THEN Outcome(QrResult(built.ret.kind, <<>>, built.ret.msg),
                 built.parts, built.mai, built.sub_62)
    ELSE Outcome(SanityCheck(built.ret.payload), built.parts, built.mai, built.sub_62)

\* generate_pix_qrcode(chave_pix, merchant_name, merchant_city, valor, txid,
\* description)
generate_pix_qrcode(a) == AfterBuild(build_pix_payload([a EXCEPT !.dynamic = FALSE]))

\* the amounts of the calls: those of ValorValues, and 7.00, 3.35, 2.77 and 0.50
QrValorValues == ValorValues \cup {Float(7000), Float(3350), Float(2770), Float(500)}

\* the calls: at most MaxVaried arguments differ from DefaultArgs
QrInputs ==
  { a \in [chave_pix : KeyValues, merchant_name : NameValues,
           merchant_city : CityValues, valor : QrValorValues, txid : TxidValues,
           description : DescValues, dynamic : {FALSE}] :
      Cardinality({f \in ArgNames : a[f] # DefaultArgs[f]}) <= MaxVaried }

InitQr ==
  /\ pc = "call"
  /\ args \in QrInputs
  /\ parts = <<>>
  /\ mai = <<>>
  /\ sub_62 = <<>>
  /\ ret = NoResult

\* one call of generate_pix_qrcode
GenerateQr ==
  /\ pc = "call"
  /\ \E r \in {generate_pix_qrcode(args)} :
       /\ ret' = r.ret
       /\ parts' = r.parts
       /\ mai' = r.mai
       /\ sub_62' = r.sub_62
  /\ pc' = "done"
  /\ UNCHANGED args

NextQr == GenerateQr

SpecQr == InitQr /\ [][NextQr]_vars

(***************************************************************************)
(* C13.                                                                    *)
(***************************************************************************)

\* C13: whenever build_pix_payload has returned a payload to
\* generate_pix_qrcode, the check of the CRC passes: neither 'CRC mismatch'
\* nor 'Payload mal formado' is raised.
C13_SanityCheckPasses ==
  pc = "done" /\ ret.payload # <<>> => ret.kind = "return"

\* the amount 7.00: the CRC of the payload is "63CB", "63" is found last inside
\* it, and the check has raised 'CRC mismatch'
C13_CrcHolds63Call ==
  /\ pc = "done"
  /\ args = [DefaultArgs EXCEPT !.valor = Float(7000)]
  /\ Last(ret.payload, 8) = <<"6", "3", "0", "4", "6", "3", "C", "B">>
  /\ rfind(ret.payload, <<"6", "3">>) = Len(ret.payload) - 4
  /\ ret.kind = "RuntimeError"
  /\ ret.msg = "CRC mismatch"

(***************************************************************************)
(* normalize_pix_key on a key, then on its own result.                     *)
(***************************************************************************)

\* the keys of KeyInputs and a formatted tax id whose third digit is 9
RepeatKeyInputs == KeyInputs \cup {<<"1", "1", "9", ".", "9", "9", "9", ".", "9", "9", "9", "-", "9", "9">>}

InitRepeatKey ==
  /\ pc = "call"
  /\ args \in RepeatKeyInputs
  /\ parts = <<>>
  /\ mai = <<>>
  /\ sub_62 = <<>>
  /\ ret = <<>>

\* normalize_pix_key on the result of NormalizeKey
NormalizeKeyAgain ==
  /\ pc = "done"
  /\ ret' = <<ret, normalize_pix_key(ret)>>
  /\ pc' = "twice"
  /\ UNCHANGED <<args, parts, mai, sub_62>>

NextRepeatKey == NormalizeKey \/ NormalizeKeyAgain

SpecRepeatKey == InitRepeatKey /\ [][NextRepeatKey]_vars

(***************************************************************************)
(* C14.                                                                    *)
(***************************************************************************)

\* C14: normalize_pix_key of a normalized key is that key.
C14_KeyIdempotent == pc = "twice" => ret[2] = ret[1]

\* the tax id "119.999.999-99" has become "11999999999", and that, normalized
\* again, the phone "+5511999999999"
C14_TaxIdBecomesPhone ==
  /\ pc = "twice"
  /\ args = <<"1", "1", "9", ".", "9", "9", "9", ".", "9", "9", "9", "-", "9", "9">>
  /\ ret = <<<<"1", "1", "9", "9", "9", "9", "9", "9", "9", "9", "9">>, <<"+", "5", "5", "1", "1", "9", "9", "9", "9", "9", "9", "9", "9", "9">>>>

(***************************************************************************)
(* C15.                                                                    *)
(***************************************************************************)

\* C15: in a returned payload subfield 01 of block 26 has a value that is not
\* empty; a key that is empty once normalized gives no payload.
C15_KeyNotEmpty ==
  /\ IsReturned => TagOf(mai[2]) = <<"0", "1">> /\ FieldValue(mai[2]) # <<>>
  /\ pc = "done" /\ normalize_pix_key(args.chave_pix) = <<>> => ret.kind # "return"

\* a key of three spaces: the payload has been returned with subfield 01 empty
C15_BlankKeyCall ==
  /\ IsReturned
  /\ args.chave_pix = <<" ", " ", " ">>
  /\ mai[2] = encode(<<"0", "1", "0", "0">>)
  /\ startswith(ret.payload, <<"0", "0", "0", "2", "0", "1", "0", "1", "0", "2", "1", "1", "2", "6", "2", "2", "0", "0", "1", "4", "B", "R", ".", "G", "O", "V", ".", "B", "C", "B", ".", "P", "I", "X", "0", "1", "0", "0">>)

=============================================================================
